---- MODULE Spec2Model ----
(***************************************************************************)
(* note-book-backend: an Express server in front of two MongoDB            *)
(* collections (notes, folders).                                           *)
(*                                                                         *)
(* Two server programs of the repository are modelled over the same        *)
(* variables:                                                              *)
(*   Spec       the server with the Firebase auth middleware               *)
(*              (src/unnamed/part_000, lines 70-271);                      *)
(*   SpecIndex  src/index.js, which serves GET /notes, GET /notes/:id and  *)
(*              GET /folders without any middleware.                       *)
(*                                                                         *)
(* A request is followed through its await points: the middleware's        *)
(* verifyIdToken, then the handler's single store call.  Every handler     *)
(* makes exactly one store call and MongoDB executes each call atomically, *)
(* so any concurrent execution of several requests has the same store      *)
(* effects and responses as the execution that takes the requests in the   *)
(* order of their store calls; the model therefore follows one request at  *)
(* a time, interleaved with run(), which assigns the collection handles.   *)
(***************************************************************************)
EXTENDS Integers, Sequences, FiniteSets, TLC

VARIABLES
  conn,    \* run(): "pending" (awaiting client.connect), "connected" (handles assigned), "failed"
  store,   \* the database "note-book": [notes |-> set of documents, folders |-> set of documents]
  nextId,  \* the next ObjectId the driver generates for an inserted document
  phase,   \* the request's position: "idle", "verifying", "awaitingStore", "responded"
  req,     \* the request being handled: [route, auth, id, body]
  resp,    \* the response sent for it: [status, message, data]
  ops,     \* the store calls the handler has issued for it
  pre,     \* the store as it was when the response was produced
  cause    \* which path of the handler produced the response

vars == <<conn, store, nextId, phase, req, resp, ops, pre, cause>>

(***************************************************************************)
(* Bounds.                                                                 *)
(***************************************************************************)
MaxDocs == 2     \* at most this many documents are ever inserted
FirstId == 10    \* the first ObjectId the driver generates

(***************************************************************************)
(* ObjectId: a fixed-width hex string (24 digits in the driver, scaled     *)
(* down here).  new ObjectId(s) throws unless s has exactly that many hex  *)
(* digits, of either case; its JSON form is the lower-case hex string.     *)
(***************************************************************************)
ObjectIdLen == 2

HexDigits == <<"0","1","2","3","4","5","6","7","8","9","a","b","c","d","e","f">>

UpperDigits == <<"0","1","2","3","4","5","6","7","8","9","A","B","C","D","E","F">>

IsHex(c) == \E i \in 1..16 : HexDigits[i] = c \/ UpperDigits[i] = c

HexVal(c) == CHOOSE v \in 0..15 : HexDigits[v + 1] = c \/ UpperDigits[v + 1] = c

IsValidObjectId(s) == Len(s) = ObjectIdLen /\ \A i \in 1..Len(s) : IsHex(s[i])

RECURSIVE HexToNat(_)
HexToNat(s) ==
  IF s = <<>> THEN 0
  ELSE HexToNat(SubSeq(s, 1, Len(s) - 1)) * 16 + HexVal(s[Len(s)])

\* new ObjectId(id), for an id that passes validation
ObjectId(s) == HexToNat(s)

RECURSIVE ToHex(_, _)
ToHex(n, w) == IF w = 0 THEN <<>> ELSE Append(ToHex(n \div 16, w - 1), HexDigits[(n % 16) + 1])

\* ObjectId.toJSON(): what res.json() sends for an _id
ToHexString(n) == ToHex(n, ObjectIdLen)

ToUpper(s) == [i \in 1..Len(s) |-> UpperDigits[HexVal(s[i]) + 1]]

(***************************************************************************)
(* Requests.                                                               *)
(***************************************************************************)
Users == {"u1", "u2"}

NoId == <<>>

\* :id path parameters: every id the store can assign, one more well-formed
\* id, an upper-case spelling, and two malformed ones
PathIds ==
  {ToHexString(FirstId + i) : i \in 0..MaxDocs}
    \cup {ToUpper(ToHexString(FirstId))}
    \cup {<<"z", "z">>, <<"0">>}

\* Authorization headers, split at the spaces; <<>> is an absent header
Headers ==
  {<<>>, <<"Basic", "t1">>, <<"Bearer", "t1">>, <<"Bearer", "t2">>, <<"Bearer", "bad">>}

\* {}
EmptyObject == [f \in {} |-> ""]

\* req.body after express.json()
Bodies ==
  {EmptyObject, [title |-> "A"], [userId |-> "u1"], [title |-> "A", userId |-> "u2"]}

NoteRoutes ==
  {"POST /notes", "GET /notes", "GET /notes/:id", "PUT /notes/:id", "DELETE /notes/:id"}

FolderRoutes ==
  {"POST /folders", "GET /folders", "GET /folders/:id", "DELETE /folders/:id"}

ProtectedRoutes == NoteRoutes \cup FolderRoutes

Routes == {"GET /"} \cup ProtectedRoutes

HasId(route) ==
  route \in {"GET /notes/:id", "PUT /notes/:id", "DELETE /notes/:id",
             "GET /folders/:id", "DELETE /folders/:id"}

HasBody(route) == route \in {"POST /notes", "PUT /notes/:id", "POST /folders"}

CollOf(route) == IF route \in FolderRoutes THEN "folders" ELSE "notes"

Requests ==
  {r \in [route : Routes, auth : Headers, id : PathIds \cup {NoId}, body : Bodies] :
     /\ HasId(r.route) <=> r.id # NoId
     /\ ~HasBody(r.route) => r.body = EmptyObject}

(***************************************************************************)
(* The identity verifier.                                                  *)
(***************************************************************************)
\* authHeader && authHeader.startsWith("Bearer ")
StartsWithBearer(h) == Len(h) >= 2 /\ h[1] = "Bearer"

\* authHeader.split(" ")[1]
IdToken(h) == h[2]

\* admin.auth().verifyIdToken(idToken): the decoded token, or a rejection
VerifyIdToken(tok) ==
  CASE tok = "t1" -> [ok |-> TRUE, uid |-> "u1"]
    [] tok = "t2" -> [ok |-> TRUE, uid |-> "u2"]
    [] OTHER -> [ok |-> FALSE, uid |-> ""]

\* req.user, once the middleware has attached it
ReqUser(r) == VerifyIdToken(IdToken(r.auth))

(***************************************************************************)
(* Documents and the collection calls the handlers make.                   *)
(***************************************************************************)
\* { ...a, ...b }: the later spread wins
ObjectSpread(a, b) == b @@ a

\* mutant: one equal field is enough
MatchesSome(d, q) == \E f \in DOMAIN q : f \in DOMAIN d /\ d[f] = q[f]

\* a query document matches when every field it names is present and equal
Matches(d, q) == \A f \in DOMAIN q : f \in DOMAIN d /\ d[f] = q[f]

Find(coll, q) == {d \in coll : Matches(d, q)}

\* null is the empty set, a document a singleton
FindOne(coll, q) ==
  IF Find(coll, q) = {} THEN {} ELSE {CHOOSE d \in Find(coll, q) : TRUE}

\* the driver gives a document without _id a fresh ObjectId
InsertOne(coll, doc, oid) == coll \cup {("_id" :> oid) @@ doc}

\* { $set: update }: a shallow merge of the given fields into the matched document
UpdateOne(coll, q, update) ==
  (coll \ FindOne(coll, q)) \cup {ObjectSpread(d, update) : d \in FindOne(coll, q)}

\* mutant: the matched document is counted and kept
DeleteOneKeeps(coll, q) == coll

DeleteOne(coll, q) == coll \ FindOne(coll, q)

\* res.json(doc): the _id goes out as its hex string
JsonDoc(d) == ("_id" :> ToHexString(d["_id"])) @@ d

InsertAck(oid) == [acknowledged |-> TRUE, insertedId |-> ToHexString(oid)]

NoResp == [status |-> 0, message |-> "", data |-> {}]

Json(status, message, data) == [status |-> status, message |-> message, data |-> data]

(***************************************************************************)
(* Steps shared by the handlers.                                           *)
(***************************************************************************)
NoReq == [route |-> "GET /", auth |-> <<>>, id |-> NoId, body |-> EmptyObject]

\* a request enters the server
Accept(r) ==
  /\ r.route \in {"POST /notes", "POST /folders"} => nextId < FirstId + MaxDocs
  /\ req' = r

\* the response is sent; the store becomes newStore
Reply(r, c, newStore, newNext) ==
  /\ phase' = "responded"
  /\ resp' = r
  /\ cause' = c
  /\ pre' = store
  /\ store' = newStore
  /\ nextId' = newNext

\* the handler threw before it reached the store
Thrown(status, message, c) ==
  /\ Reply(Json(status, message, {}), c, store, nextId)
  /\ UNCHANGED <<conn, ops>>

\* the handler called the collection method and awaits its promise
Issue(coll, op) ==
  /\ phase' = "awaitingStore"
  /\ ops' = Append(ops, [coll |-> coll, op |-> op])
  /\ UNCHANGED <<conn, store, nextId, resp, pre, cause>>

\* the promise rejected: the catch block answers
Rejected(status, message) ==
  /\ Reply(Json(status, message, {}), "store", store, nextId)
  /\ UNCHANGED <<conn, req, ops>>

\* the promise resolved
Resolved(r, newStore, newNext) ==
  /\ Reply(r, "ok", newStore, newNext)
  /\ UNCHANGED <<conn, req, ops>>

(***************************************************************************)
(* run(): connect, then assign notesCollection and folderCollection.       *)
(***************************************************************************)
Run ==
  /\ conn = "pending"
  /\ \/ conn' = "connected"
     \/ conn' = "failed"
  /\ UNCHANGED <<store, nextId, phase, req, resp, ops, pre, cause>>

(***************************************************************************)
(* The server with the auth middleware.                                    *)
(***************************************************************************)
Root ==
  /\ phase = "idle"
  /\ \E r \in Requests : r.route = "GET /" /\ Accept(r)
  /\ ops' = <<>>
  /\ Reply(Json(200, "Notes API is running...", {}), "ok", store, nextId)
  /\ UNCHANGED conn

AuthenticateFirebaseToken ==
  \/ /\ phase = "idle"
     /\ \E r \in Requests : r.route \in ProtectedRoutes /\ Accept(r)
     /\ ops' = <<>>
     /\ IF ~StartsWithBearer(req'.auth)
          THEN /\ Reply(Json(401, "Unauthorized", {}), "auth", store, nextId)
               /\ UNCHANGED conn
          ELSE /\ phase' = "verifying"
               /\ resp' = NoResp
               /\ cause' = "none"
               /\ pre' = store
               /\ UNCHANGED <<conn, store, nextId>>
  \/ /\ phase = "verifying"
     /\ ~VerifyIdToken(IdToken(req.auth)).ok
     /\ Reply(Json(403, "Invalid token", {}), "auth", store, nextId)
     /\ UNCHANGED <<conn, req, ops>>

\* next(): the token verified and the route's handler starts
Entered(route) ==
  /\ phase = "verifying"
  /\ req.route = route
  /\ VerifyIdToken(IdToken(req.auth)).ok

\* the handler of route resumes after its store call
Resumed(route) ==
  /\ phase = "awaitingStore"
  /\ req.route = route

\* mutant: the filter names the document only
ByIdOnly(r) == ("_id" :> ObjectId(r.id))

\* { _id: new ObjectId(id), userId: req.user.uid }
OwnedById(r) == ("_id" :> ObjectId(r.id)) @@ ("userId" :> ReqUser(r).uid)

\* { userId: req.user.uid }
OwnedBy(r) == ("userId" :> ReqUser(r).uid)

\* mutant: the body is spread last and its userId wins
StampedBodyWins(r) == ObjectSpread("userId" :> ReqUser(r).uid, r.body)

\* { ...req.body, userId: req.user.uid }
Stamped(r) == ObjectSpread(r.body, "userId" :> ReqUser(r).uid)

PostNotes ==
  \/ /\ Entered("POST /notes")
     /\ IF conn # "connected"
          THEN Thrown(500, "Failed to create note", "nocoll")
          ELSE Issue("notes", "insertOne")
     /\ UNCHANGED req
  \/ /\ Resumed("POST /notes")
     /\ \E ok \in BOOLEAN :
          IF ~ok THEN Rejected(500, "Failed to create note")
          ELSE Resolved(Json(201, "", {InsertAck(nextId)}),
                        [store EXCEPT !.notes = InsertOne(@, Stamped(req), nextId)],
                        nextId + 1)

GetNotes ==
  \/ /\ Entered("GET /notes")
     /\ IF conn # "connected"
          THEN Thrown(500, "Failed to fetch notes", "nocoll")
          ELSE Issue("notes", "find")
     /\ UNCHANGED req
  \/ /\ Resumed("GET /notes")
     /\ \E ok \in BOOLEAN :
          IF ~ok THEN Rejected(500, "Failed to fetch notes")
          ELSE Resolved(Json(200, "", {JsonDoc(d) : d \in Find(store.notes, OwnedBy(req))}),
                        store, nextId)

GetNoteById ==
  \/ /\ Entered("GET /notes/:id")
     /\ IF conn # "connected"
          THEN Thrown(400, "Invalid note ID", "nocoll")
          ELSE IF ~IsValidObjectId(req.id)
            THEN Thrown(400, "Invalid note ID", "badid")
            ELSE Issue("notes", "findOne")
     /\ UNCHANGED req
  \/ /\ Resumed("GET /notes/:id")
     /\ \E ok \in BOOLEAN :
          IF ~ok THEN Rejected(400, "Invalid note ID")
          ELSE LET note == FindOne(store.notes, OwnedById(req)) IN
               IF note = {}
                 THEN Resolved(Json(404, "Note not found", {}), store, nextId)
                 ELSE Resolved(Json(200, "", {JsonDoc(d) : d \in note}), store, nextId)

PutNote ==
  \/ /\ Entered("PUT /notes/:id")
     /\ IF conn # "connected"
          THEN Thrown(500, "Failed to update note", "nocoll")
          ELSE IF ~IsValidObjectId(req.id)
            THEN Thrown(500, "Failed to update note", "badid")
            ELSE Issue("notes", "updateOne")
     /\ UNCHANGED req
  \/ /\ Resumed("PUT /notes/:id")
     /\ \E ok \in BOOLEAN :
          IF ~ok THEN Rejected(500, "Failed to update note")
          ELSE LET matchedCount == Cardinality(FindOne(store.notes, OwnedById(req))) IN
               IF matchedCount = 0
                 THEN Resolved(Json(404, "Note not found", {}), store, nextId)
                 ELSE Resolved(Json(200, "Note updated successfully", {}),
                               [store EXCEPT !.notes = UpdateOne(@, OwnedById(req), req.body)],
                               nextId)

DeleteNote ==
  \/ /\ Entered("DELETE /notes/:id")
     /\ IF conn # "connected"
          THEN Thrown(500, "Failed to delete note", "nocoll")
          ELSE IF ~IsValidObjectId(req.id)
            THEN Thrown(500, "Failed to delete note", "badid")
            ELSE Issue("notes", "deleteOne")
     /\ UNCHANGED req
  \/ /\ Resumed("DELETE /notes/:id")
     /\ \E ok \in BOOLEAN :
          IF ~ok THEN Rejected(500, "Failed to delete note")
          ELSE LET deletedCount == Cardinality(FindOne(store.notes, OwnedById(req))) IN
               IF deletedCount = 0
                 THEN Resolved(Json(404, "Note not found", {}), store, nextId)
                 ELSE Resolved(Json(200, "Note deleted", {}),
                               [store EXCEPT !.notes = DeleteOne(@, OwnedById(req))],
                               nextId)

PostFolders ==
  \/ /\ Entered("POST /folders")
     /\ IF conn # "connected"
          THEN Thrown(500, "Failed to create folder", "nocoll")
          ELSE Issue("folders", "insertOne")
     /\ UNCHANGED req
  \/ /\ Resumed("POST /folders")
     /\ \E ok \in BOOLEAN :
          IF ~ok THEN Rejected(500, "Failed to create folder")
          ELSE Resolved(Json(201, "", {InsertAck(nextId)}),
                        [store EXCEPT !.folders = InsertOne(@, Stamped(req), nextId)],
                        nextId + 1)

GetFolders ==
  \/ /\ Entered("GET /folders")
     /\ IF conn # "connected"
          THEN Thrown(500, "Failed to fetch folders", "nocoll")
          ELSE Issue("folders", "find")
     /\ UNCHANGED req
  \/ /\ Resumed("GET /folders")
     /\ \E ok \in BOOLEAN :
          IF ~ok THEN Rejected(500, "Failed to fetch folders")
          ELSE Resolved(Json(200, "", {JsonDoc(d) : d \in Find(store.folders, OwnedBy(req))}),
                        store, nextId)

GetFolderById ==
  \/ /\ Entered("GET /folders/:id")
     /\ IF conn # "connected"
          THEN Thrown(400, "Invalid folder ID", "nocoll")
          ELSE IF ~IsValidObjectId(req.id)
            THEN Thrown(400, "Invalid folder ID", "badid")
            ELSE Issue("folders", "findOne")
     /\ UNCHANGED req
  \/ /\ Resumed("GET /folders/:id")
     /\ \E ok \in BOOLEAN :
          IF ~ok THEN Rejected(400, "Invalid folder ID")
          ELSE LET folder == FindOne(store.folders, OwnedById(req)) IN
               IF folder = {}
                 THEN Resolved(Json(404, "Folder not found", {}), store, nextId)
                 ELSE Resolved(Json(200, "", {JsonDoc(d) : d \in folder}), store, nextId)

DeleteFolder ==
  \/ /\ Entered("DELETE /folders/:id")
     /\ IF conn # "connected"
          THEN Thrown(500, "Failed to delete folder", "nocoll")
          ELSE IF ~IsValidObjectId(req.id)
            THEN Thrown(500, "Failed to delete folder", "badid")
            ELSE Issue("folders", "deleteOne")
     /\ UNCHANGED req
  \/ /\ Resumed("DELETE /folders/:id")
     /\ \E ok \in BOOLEAN :
          IF ~ok THEN Rejected(500, "Failed to delete folder")
          ELSE LET deletedCount == Cardinality(FindOne(store.folders, OwnedById(req))) IN
               IF deletedCount = 0
                 THEN Resolved(Json(404, "Folder not found", {}), store, nextId)
                 ELSE Resolved(Json(200, "Folder deleted", {}),
                               [store EXCEPT !.folders = DeleteOne(@, OwnedById(req))],
                               nextId)

\* the response has gone out and the server is ready for the next request
Close ==
  /\ phase = "responded"
  /\ phase' = "idle"
  /\ req' = NoReq
  /\ resp' = NoResp
  /\ ops' = <<>>
  /\ cause' = "none"
  /\ pre' = store
  /\ UNCHANGED <<conn, store, nextId>>

EmptyStore == [notes |-> {}, folders |-> {}]

Init ==
  /\ conn = "pending"
  /\ store = EmptyStore
  /\ nextId = FirstId
  /\ phase = "idle"
  /\ req = NoReq
  /\ resp = NoResp
  /\ ops = <<>>
  /\ pre = EmptyStore
  /\ cause = "none"

Next ==
  \/ Run
  \/ Root
  \/ AuthenticateFirebaseToken
  \/ PostNotes
  \/ GetNotes
  \/ GetNoteById
  \/ PutNote
  \/ DeleteNote
  \/ PostFolders
  \/ GetFolders
  \/ GetFolderById
  \/ DeleteFolder
  \/ Close

Spec == Init /\ [][Next]_vars

(***************************************************************************)
(* src/index.js: the same database behind routes without middleware.       *)
(***************************************************************************)
IndexRun ==
  /\ conn = "pending"
  /\ \/ conn' = "connected"
     \/ conn' = "failed"
  /\ UNCHANGED <<store, nextId, phase, req, resp, ops, pre, cause>>

IndexRoot ==
  /\ phase = "idle"
  /\ \E r \in Requests : r.route = "GET /" /\ Accept(r)
  /\ Reply(Json(200, "Notes API is running...", {}), "ok", store, nextId)
  /\ UNCHANGED <<conn, ops>>

\* the route matched and its handler starts at once
IndexEntered(route) ==
  /\ phase = "idle"
  /\ \E r \in Requests : r.route = route /\ Accept(r)

IndexGetNotes ==
  \/ /\ IndexEntered("GET /notes")
     /\ IF conn # "connected"
          THEN Thrown(500, "Failed to fetch notes", "nocoll")
          ELSE Issue("notes", "find")
  \/ /\ Resumed("GET /notes")
     /\ \E ok \in BOOLEAN :
          IF ~ok THEN Rejected(500, "Failed to fetch notes")
          ELSE Resolved(Json(200, "", {JsonDoc(d) : d \in Find(store.notes, EmptyObject)}),
                        store, nextId)

IndexGetNoteById ==
  \/ /\ IndexEntered("GET /notes/:id")
     /\ IF conn # "connected"
          THEN Thrown(400, "Invalid note ID", "nocoll")
          ELSE IF ~IsValidObjectId(req'.id)
            THEN Thrown(400, "Invalid note ID", "badid")
            ELSE Issue("notes", "findOne")
  \/ /\ Resumed("GET /notes/:id")
     /\ \E ok \in BOOLEAN :
          IF ~ok THEN Rejected(400, "Invalid note ID")
          ELSE LET note == FindOne(store.notes, "_id" :> ObjectId(req.id)) IN
               IF note = {}
                 THEN Resolved(Json(404, "Note not found", {}), store, nextId)
                 ELSE Resolved(Json(200, "", {JsonDoc(d) : d \in note}), store, nextId)

IndexGetFolders ==
  \/ /\ IndexEntered("GET /folders")
     /\ IF conn # "connected"
          THEN Thrown(500, "Failed to fetch folders", "nocoll")
          ELSE Issue("folders", "find")
  \/ /\ Resumed("GET /folders")
     /\ \E ok \in BOOLEAN :
          IF ~ok THEN Rejected(500, "Failed to fetch folders")
          ELSE Resolved(Json(200, "", {JsonDoc(d) : d \in Find(store.folders, EmptyObject)}),
                        store, nextId)

\* documents the server with the middleware has written to the database
SeedDocs ==
  {("_id" :> FirstId) @@ [title |-> "A", userId |-> "u1"],
   ("_id" :> FirstId + 1) @@ [userId |-> "u2"]}

SeedStores ==
  {s \in [notes : SUBSET SeedDocs, folders : SUBSET SeedDocs] : s.notes \cap s.folders = {}}

InitIndex ==
  /\ conn = "pending"
  /\ store \in SeedStores
  /\ nextId = FirstId + MaxDocs
  /\ phase = "idle"
  /\ req = NoReq
  /\ resp = NoResp
  /\ ops = <<>>
  /\ pre = store
  /\ cause = "none"

NextIndex ==
  \/ IndexRun
  \/ IndexRoot
  \/ IndexGetNotes
  \/ IndexGetNoteById
  \/ IndexGetFolders
  \/ Close

SpecIndex == InitIndex /\ [][NextIndex]_vars

(***************************************************************************)
(* Vocabulary of the properties.                                           *)
(***************************************************************************)
Responded == phase = "responded"

\* the requester's credential verifies, as subject Subject(req)
Verified(r) == StartsWithBearer(r.auth) /\ VerifyIdToken(IdToken(r.auth)).ok

Subject(r) == ReqUser(r).uid

Collections == {"notes", "folders"}

ByIdRoutes == {r \in ProtectedRoutes : HasId(r)}

ListRoutes == {"GET /notes", "GET /folders"}

CreateRoutes == {"POST /notes", "POST /folders"}

DeleteRoutes == {"DELETE /notes/:id", "DELETE /folders/:id"}

\* the store executed the request's call and the handler answered from its result
Served == Responded /\ cause = "ok" /\ ops # <<>>

\* the documents of the route's collection that the path id names, before the call
Target == {d \in pre[CollOf(req.route)] : d["_id"] = ObjectId(req.id)}

ForeignTarget == \E d \in Target : d["userId"] # Subject(req)

OwnTarget == \E d \in Target : d["userId"] = Subject(req)

\* ids the store has assigned that no document carries any more
Deleted(s) ==
  {i \in FirstId..(nextId - 1) : \A c \in Collections : \A d \in s[c] : d["_id"] # i}

NotFound(route) ==
  Json(404, IF route \in FolderRoutes THEN "Folder not found" ELSE "Note not found", {})

(***************************************************************************)
(* C1: on every protected route a request without a "Bearer " header is    *)
(* answered 401 {message: "Unauthorized"}, one whose token fails           *)
(* verification 403 {message: "Invalid token"}, and neither makes a store  *)
(* call.  Stated for the requests that no unassigned collection handle and *)
(* no malformed path id stops short of the store.                          *)
(***************************************************************************)
C1_UnauthenticatedNeverReachesStore ==
  (Responded /\ req.route \in ProtectedRoutes /\ cause \notin {"nocoll", "badid"}) =>
    /\ ~StartsWithBearer(req.auth) =>
         resp = Json(401, "Unauthorized", {}) /\ ops = <<>>
    /\ (StartsWithBearer(req.auth) /\ ~Verified(req)) =>
         resp = Json(403, "Invalid token", {}) /\ ops = <<>>

(***************************************************************************)
(* C2: a successful POST /notes or POST /folders by a requester verified   *)
(* as S inserts exactly one document, whose userId is S whatever userId    *)
(* the body names, and whose other fields are the body's.                  *)
(***************************************************************************)
C2_CreateStampsVerifiedOwner ==
  (Responded /\ req.route \in CreateRoutes /\ resp.status = 201) =>
    LET inserted == store[CollOf(req.route)] \ pre[CollOf(req.route)] IN
      /\ Cardinality(inserted) = 1
      /\ \A d \in inserted :
           /\ d["userId"] = Subject(req)
           /\ \A f \in DOMAIN req.body \ {"userId"} : f \in DOMAIN d /\ d[f] = req.body[f]

C2_Witness ==
  /\ Responded /\ req.route \in CreateRoutes /\ resp.status = 201
  /\ "userId" \in DOMAIN req.body
  /\ req.body["userId"] # Subject(req)

(***************************************************************************)
(* C3: no request changes the owner of a document that stays in the store. *)
(***************************************************************************)
C3_OwnerNeverChanges ==
  Responded =>
    \A c \in Collections : \A d \in pre[c] : \A e \in store[c] :
      d["_id"] = e["_id"] => e["userId"] = d["userId"]

(***************************************************************************)
(* C4: a get, update or delete by id that the store serves for a           *)
(* requester who does not own the named document gets the route's 404      *)
(* response and changes nothing, exactly as when the id names no document; *)
(* and however the request ends, a non-owner is sent no document and no    *)
(* success, and the store is left as it was.                               *)
(***************************************************************************)
C4_NonOwnerSeesNotFound ==
  /\ (Served /\ req.route \in ByIdRoutes /\ (ForeignTarget \/ Target = {})) =>
       /\ resp = NotFound(req.route)
       /\ store = pre
  /\ (/\ Responded /\ req.route \in ByIdRoutes /\ Verified(req)
      /\ IsValidObjectId(req.id) /\ ForeignTarget) =>
       /\ resp.status \in {400, 404, 500}
       /\ resp.data = {}
       /\ store = pre

C4_Witness ==
  /\ Served /\ req.route \in ByIdRoutes
  /\ ForeignTarget
  /\ resp.status = 404

(***************************************************************************)
(* C5: a request by subject B leaves every document owned by another       *)
(* subject in the store with all its fields unchanged.                     *)
(***************************************************************************)
C5_OtherOwnersDocumentsUntouched ==
  (Responded /\ req.route \in ProtectedRoutes /\ Verified(req)) =>
    \A c \in Collections : \A d \in pre[c] :
      d["userId"] # Subject(req) => d \in store[c]

C5_Witness ==
  /\ Served
  /\ req.route \in {"PUT /notes/:id", "DELETE /notes/:id", "DELETE /folders/:id"}
  /\ ForeignTarget
  /\ store[CollOf(req.route)] # {}

(***************************************************************************)
(* C6: a served GET /notes or GET /folders by a requester verified as S    *)
(* returns 200 with exactly the documents whose userId is S.               *)
(***************************************************************************)
C6_ListReturnsExactlyOwned ==
  (Served /\ req.route \in ListRoutes /\ Verified(req)) =>
    resp = Json(200, "",
                {JsonDoc(d) : d \in {e \in pre[CollOf(req.route)] : e["userId"] = Subject(req)}})

(***************************************************************************)
(* C7: a get or delete by id whose path id is not a valid ObjectId is      *)
(* answered 400 without a store call.                                      *)
(***************************************************************************)
C7_MalformedIdIsBadRequest ==
  (Responded /\ req.route \in ByIdRoutes \ {"PUT /notes/:id"} /\ cause = "badid") =>
    resp.status = 400 /\ ops = <<>>

(***************************************************************************)
(* C8: when the store call of a handler fails the response is 500.         *)
(***************************************************************************)
C8_StoreFailureIsServerError ==
  (Responded /\ cause = "store") => resp.status = 500

(***************************************************************************)
(* C9: a delete by id that the store serves for the owner of the named     *)
(* document answers 200 and removes it; an id whose document is gone       *)
(* answers 404 on get, update and delete, and never names a document       *)
(* again.                                                                  *)
(***************************************************************************)
C9_DeleteServed ==
  (Served /\ req.route \in DeleteRoutes /\ OwnTarget) =>
    /\ resp.status = 200
    /\ resp.message = (IF req.route \in FolderRoutes THEN "Folder deleted" ELSE "Note deleted")
    /\ ObjectId(req.id) \in Deleted(store)

C9_GoneIsNotFound ==
  (Served /\ req.route \in ByIdRoutes /\ ObjectId(req.id) \in Deleted(pre)) =>
    resp = NotFound(req.route)

C9_DeleteThenNotFound ==
  [][/\ C9_DeleteServed'
     /\ C9_GoneIsNotFound'
     /\ Deleted(store) \subseteq Deleted(store')]_vars

C9_Witness ==
  /\ Served /\ req.route \in DeleteRoutes
  /\ ObjectId(req.id) \in Deleted(pre)
  /\ resp.status = 404

(***************************************************************************)
(* C10: a request handled while notesCollection / folderCollection are     *)
(* unassigned makes no store call and is answered 500.  Stated for         *)
(* requests whose path id, if any, is well formed.                         *)
(***************************************************************************)
C10_UnassignedHandleIsServerError ==
  (Responded /\ cause = "nocoll" /\ (HasId(req.route) => IsValidObjectId(req.id))) =>
    resp.status = 500 /\ ops = <<>>

====
